---- MODULE Spec2Model ----
(***************************************************************************)
(* A model of create_DB.py: the four delivery tables of the Cricsheet      *)
(* SQLite database are dropped and recreated, each is loaded from its CSV, *)
(* the tables are indexed, and a battery of sanity queries is printed.     *)
(*                                                                         *)
(* A cell of a CSV file or of a table is NULL (the empty tuple) or a       *)
(* one-element tuple holding a string or an integer.  A data frame and a   *)
(* table both carry their column set; a row is a function from that column *)
(* set to cells.                                                           *)
(***************************************************************************)
EXTENDS Integers, Sequences, FiniteSets, TLC

\* ------------------------------------------------------------------ bounds

\* The most data rows of a generated CSV file in the loader's harness.
MaxRows == 2

\* The number of times the operator runs main against the same database file.
MaxRuns == 2

\* ------------------------------------------------------- program constants

\* TABLE_MAP's keys in dictionary (insertion) order.
Tables == <<"test_table", "odi_table", "t20_table", "ipl_table">>

TableSet == {Tables[k] : k \in 1..Len(Tables)}

NumTables == Len(Tables)

\* The 20 columns that DDL_TEMPLATE declares.
TextColumns ==
    {"match_id", "match_date", "match_type", "season", "city", "venue",
     "toss_winner", "toss_decision", "winner", "player_of_match", "teams",
     "team", "batter", "bowler", "non_striker", "wicket"}

IntColumns == {"over", "runs_batter", "runs_extras", "runs_total"}

Columns == TextColumns \cup IntColumns

\* The statements of INDEXES: the index's name after the table prefix, and
\* the columns it is on.
INDEXES ==
    << [name |-> "idx_match_id",    cols |-> <<"match_id">>],
       [name |-> "idx_mt_season",   cols |-> <<"match_type", "season">>],
       [name |-> "idx_team_season", cols |-> <<"team", "season">>],
       [name |-> "idx_batter",      cols |-> <<"batter">>],
       [name |-> "idx_bowler",      cols |-> <<"bowler">>],
       [name |-> "idx_winner",      cols |-> <<"winner">>],
       [name |-> "idx_venue",       cols |-> <<"venue">>] >>

\* The slice [:5] of the offending values a mismatch warning shows.
ExampleLimit == 5

\* LIMIT 5 of the top-venues query.
VenueLimit == 5

\* TABLE_MAP: the CSV file of each table, under cricsheet_data/processed.
TABLE_MAP(t) ==
    CASE t = "test_table" -> "test.csv"
      [] t = "odi_table"  -> "ODI.csv"
      [] t = "t20_table"  -> "T20.csv"
      [] t = "ipl_table"  -> "IPL.csv"

Paths == {TABLE_MAP(t) : t \in TableSet}

\* A mutant of LoadCalls: the second call copied from the first with its path
\* left unchanged.
LoadCalls_CopiedPath ==
    << [table |-> "test_table", path |-> TABLE_MAP("test_table"), expected |-> "Test"],
       [table |-> "odi_table",  path |-> TABLE_MAP("test_table"), expected |-> "ODI"],
       [table |-> "t20_table",  path |-> TABLE_MAP("t20_table"),  expected |-> "T20"],
       [table |-> "ipl_table",  path |-> TABLE_MAP("ipl_table"),  expected |-> ""] >>

\* The arguments of main's four calls of load_csv_to_table, in order ("" is
\* None: no expectation).
LoadCalls ==
    << [table |-> "test_table", path |-> TABLE_MAP("test_table"), expected |-> "Test"],
       [table |-> "odi_table",  path |-> TABLE_MAP("odi_table"),  expected |-> "ODI"],
       [table |-> "t20_table",  path |-> TABLE_MAP("t20_table"),  expected |-> "T20"],
       [table |-> "ipl_table",  path |-> TABLE_MAP("ipl_table"),  expected |-> ""] >>

\* ------------------------------------------------------------------- cells

NULL == <<>>

Val(x) == <<x>>

IsNull(c) == c = NULL

\* -------------------------------------------------------------- sequences

RECURSIVE SeqsUpTo(_, _)
SeqsUpTo(S, n) ==
    IF n = 0 THEN {<<>>}
    ELSE LET shorter == SeqsUpTo(S, n - 1)
         IN  shorter \cup {Append(s, x) : s \in {q \in shorter : Len(q) = n - 1}, x \in S}

Range(s) == {s[k] : k \in 1..Len(s)}

\* Series.unique(): the distinct values in order of first appearance.
RECURSIVE Unique(_)
Unique(s) ==
    IF s = <<>> THEN <<>>
    ELSE LET init == Unique(SubSeq(s, 1, Len(s) - 1))
             last == s[Len(s)]
         IN  IF last \in Range(init) THEN init ELSE Append(init, last)

\* s[:n]
Take(s, n) == SubSeq(s, 1, IF Len(s) < n THEN Len(s) ELSE n)

\* ------------------------------------------------------------- CSV files

\* What os.path.isfile and pd.read_csv can find at a path of TABLE_MAP: no
\* file, a file read_csv cannot parse, or a header row and data rows.
Absent == [kind |-> "absent", columns |-> {}, rows |-> <<>>]

Malformed == [kind |-> "malformed", columns |-> {}, rows |-> <<>>]

Csv(header, rows) == [kind |-> "csv", columns |-> header, rows |-> rows]

\* os.path.isfile(csv_path)
IsFile(file) == file.kind # "absent"

\* The data rows of a source file: the lines after the header.
DataRows(file) == IF file.kind = "csv" THEN Len(file.rows) ELSE 0

\* pd.read_csv(csv_path): the frame of the file's columns and data rows, or
\* a ParserError / EmptyDataError.
ReadCsv(file) ==
    IF file.kind = "csv"
    THEN [raised |-> "none", columns |-> file.columns, rows |-> file.rows]
    ELSE [raised |-> "ParserError", columns |-> {}, rows |-> <<>>]

\* ------------------------------------------------------------------ tables

\* A table the database does not hold.
NoTable == [exists |-> FALSE, cols |-> {}, rows |-> <<>>, indexes |-> {}]

\* DROP TABLE IF EXISTS {table}: the table goes, and its indexes with it.
DropTableIfExists(tbl) == NoTable

\* CREATE TABLE {table} (...): an error when the table exists.
CreateTable(tbl) ==
    IF tbl.exists
    THEN [raised |-> "OperationalError", tbl |-> tbl]
    ELSE [raised |-> "none",
          tbl |-> [exists |-> TRUE, cols |-> Columns, rows |-> <<>>, indexes |-> {}]]

\* A mutant of ExecuteDDL: CREATE TABLE IF NOT EXISTS without the DROP.
ExecuteDDL_KeepExisting(tbl) ==
    IF tbl.exists THEN [raised |-> "none", tbl |-> tbl] ELSE CreateTable(tbl)

\* cur.executescript(DDL_TEMPLATE.format(table=table))
ExecuteDDL(tbl) == CreateTable(DropTableIfExists(tbl))

\* A mutant of CreateIndexIfNotExists: CREATE INDEX without IF NOT EXISTS.
CreateIndex_FailsIfExists(tbl, ix) ==
    IF ~tbl.exists \/ ~(Range(ix.cols) \subseteq tbl.cols)
       \/ \E have \in tbl.indexes : have.name = ix.name
    THEN [raised |-> "OperationalError", tbl |-> tbl]
    ELSE [raised |-> "none", tbl |-> [tbl EXCEPT !.indexes = @ \cup {ix}]]

\* CREATE INDEX IF NOT EXISTS {t}_<name> ON {t}(<cols>): an error when the
\* table or one of the columns is missing, nothing when the index exists.
CreateIndexIfNotExists(tbl, ix) ==
    IF ~tbl.exists \/ ~(Range(ix.cols) \subseteq tbl.cols)
    THEN [raised |-> "OperationalError", tbl |-> tbl]
    ELSE IF \E have \in tbl.indexes : have.name = ix.name
    THEN [raised |-> "none", tbl |-> tbl]
    ELSE [raised |-> "none", tbl |-> [tbl EXCEPT !.indexes = @ \cup {ix}]]

\* for stmt in INDEXES: cur.execute(stmt.format(t=table)), from statement k
\* on; the first error ends the loop.
RECURSIVE CreateIndexesFrom(_, _)
CreateIndexesFrom(tbl, k) ==
    IF k > Len(INDEXES) THEN [raised |-> "none", tbl |-> tbl]
    ELSE LET r == CreateIndexIfNotExists(tbl, INDEXES[k])
         IN  IF r.raised # "none" THEN r ELSE CreateIndexesFrom(r.tbl, k + 1)

CreateIndexes(tbl) == CreateIndexesFrom(tbl, 1)

\* ------------------------------------------------------------------ loader

\* A mutant of BadRows: the mask without notna().
BadRows_CountsMissing(df, expected) ==
    SelectSeq(df.rows, LAMBDA r : r["match_type"] # Val(expected))

\* bad = df[(df["match_type"].notna()) & (df["match_type"] != expected)]
BadRows(df, expected) ==
    SelectSeq(df.rows, LAMBDA r : ~IsNull(r["match_type"]) /\ r["match_type"] # Val(expected))

\* bad['match_type'].dropna().unique()[:5]
Examples(bad) ==
    LET labels == [k \in 1..Len(bad) |-> bad[k]["match_type"]]
    IN  Take(Unique(SelectSeq(labels, LAMBDA c : ~IsNull(c))), ExampleLimit)

\* The optional check of match_type against the expectation: the warnings it
\* prints.
MismatchWarnings(df, expected) ==
    IF expected # "" /\ "match_type" \in df.columns
    THEN LET bad == BadRows(df, expected)
         IN  IF Len(bad) > 0
             THEN << [kind |-> "mismatch", count |-> Len(bad), examples |-> Examples(bad)] >>
             ELSE <<>>
    ELSE <<>>

\* The row a frame's row becomes in a table: the table's columns, NULL where
\* the frame has no such column.
InsertedRow(tbl, df, r) == [c \in tbl.cols |-> IF c \in df.columns THEN r[c] ELSE NULL]

\* A mutant of ToSql: the last row of the frame is not inserted.
ToSql_DropsLastRow(tbl, df) ==
    LET target == IF tbl.exists THEN tbl
                  ELSE [exists |-> TRUE, cols |-> df.columns, rows |-> <<>>, indexes |-> {}]
    IN  IF Len(df.rows) = 0 THEN [raised |-> "none", tbl |-> target]
        ELSE IF ~(df.columns \subseteq target.cols)
        THEN [raised |-> "OperationalError", tbl |-> tbl]
        ELSE [raised |-> "none",
              tbl |-> [target EXCEPT !.rows =
                          @ \o [k \in 1..(Len(df.rows) - 1) |-> InsertedRow(target, df, df.rows[k])]]]

\* df.to_sql(table_name, conn, if_exists="append", index=False): a missing
\* table is created with the frame's columns; the INSERT names every column
\* of the frame, so a column the table lacks is an OperationalError, and the
\* transaction is rolled back; a frame without rows inserts nothing.
ToSql(tbl, df) ==
    LET target == IF tbl.exists THEN tbl
                  ELSE [exists |-> TRUE, cols |-> df.columns, rows |-> <<>>, indexes |-> {}]
    IN  IF Len(df.rows) = 0 THEN [raised |-> "none", tbl |-> target]
        ELSE IF ~(df.columns \subseteq target.cols)
        THEN [raised |-> "OperationalError", tbl |-> tbl]
        ELSE [raised |-> "none",
              tbl |-> [target EXCEPT !.rows =
                          @ \o [k \in 1..Len(df.rows) |-> InsertedRow(target, df, df.rows[k])]]]

\* load_csv_to_table(conn, table_name, csv_path, expected_match_type): the
\* exception it raises, the value it returns, the warnings it prints and the
\* table it leaves.
LoadCsvToTable(tbl, file, expected) ==
    IF ~IsFile(file)
    THEN [raised |-> "none", ret |-> 0, warnings |-> << [kind |-> "missing", count |-> 0, examples |-> <<>>] >>,
          tbl |-> tbl]
    ELSE LET df == ReadCsv(file)
         IN  IF df.raised # "none"
             THEN [raised |-> df.raised, ret |-> 0, warnings |-> <<>>, tbl |-> tbl]
             ELSE LET warned == MismatchWarnings(df, expected)
                      stored == ToSql(tbl, df)
                  IN  IF stored.raised # "none"
                      THEN [raised |-> stored.raised, ret |-> 0, warnings |-> warned, tbl |-> tbl]
                      ELSE [raised |-> "none", ret |-> Len(df.rows), warnings |-> warned,
                            tbl |-> stored.tbl]

\* --------------------------------------------------------------- validator

\* A query on the 20 columns runs when the table exists and has them.
Queryable(tbl) == tbl.exists /\ Columns \subseteq tbl.cols

\* SELECT <col>, COUNT(*) FROM {table} GROUP BY <col>
GroupCount(rows, col) ==
    [v \in {rows[k][col] : k \in 1..Len(rows)} |->
        Len(SelectSeq(rows, LAMBDA r : r[col] = v))]

\* The strings TRIM turns into ''.
BlankStrings == {"", " ", "  "}

\* <col> IS NULL OR TRIM(<col>) = ''
NullOrBlank(c) == IsNull(c) \/ c[1] \in BlankStrings

\* <col> < 0, which is not true of NULL.
Negative(c) == ~IsNull(c) /\ c[1] < 0

\* SUM(CASE WHEN ... THEN 1 ELSE 0 END) over rows of which `matching` meet
\* the condition: NULL over no rows.
SumCase(rows, matching) == IF Len(rows) = 0 THEN NULL ELSE Val(Len(matching))

\* Check 1: SELECT COUNT(*) and the match_type distribution.
CountsQuery(t, tbl) ==
    [check |-> "counts", table |-> t,
     result |-> <<Len(tbl.rows), GroupCount(tbl.rows, "match_type")>>]

\* Check 2: the four sums of the NULL checks.
NullsQuery(t, tbl) ==
    [check |-> "nulls", table |-> t,
     result |-> << SumCase(tbl.rows, SelectSeq(tbl.rows, LAMBDA r : NullOrBlank(r["team"]))),
                   SumCase(tbl.rows, SelectSeq(tbl.rows, LAMBDA r : NullOrBlank(r["batter"]))),
                   SumCase(tbl.rows, SelectSeq(tbl.rows, LAMBDA r : NullOrBlank(r["bowler"]))),
                   SumCase(tbl.rows, SelectSeq(tbl.rows, LAMBDA r : IsNull(r["runs_total"]))) >>]

\* f"{value:,}": a TypeError when the value is None.
FormatRaises(results) == \E k \in 1..Len(results) : IsNull(results[k])

\* Check 3: negative runs and NULL overs.
ValuesQuery(t, tbl) ==
    [check |-> "values", table |-> t,
     result |-> << Len(SelectSeq(tbl.rows, LAMBDA r : Negative(r["runs_total"]) \/ Negative(r["runs_batter"])
                                                           \/ Negative(r["runs_extras"]))),
                   Len(SelectSeq(tbl.rows, LAMBDA r : IsNull(r["over"]))) >>]

\* Check 4: the match_type distribution of ipl_table.
IplQuery(tbl) ==
    [check |-> "ipl_match_type", table |-> "ipl_table",
     result |-> GroupCount(tbl.rows, "match_type")]

\* Check 5: GROUP BY venue ORDER BY c DESC LIMIT 5, as the set of (venue,
\* count) pairs that fewer than 5 venues outnumber (which of the venues tied
\* at the limit are printed is the engine's choice).
TopVenues(rows) ==
    LET c == GroupCount(rows, "venue")
    IN  {<<v, c[v]>> : v \in {w \in DOMAIN c :
            Cardinality({u \in DOMAIN c : c[u] > c[w]}) < VenueLimit}}

VenuesQuery(t, tbl) == [check |-> "top_venues", table |-> t, result |-> TopVenues(tbl.rows)]

\* The query of one of the per-table checks.
QueryOf(check, t, tbl) ==
    CASE check = "counts" -> CountsQuery(t, tbl)
      [] check = "nulls"  -> NullsQuery(t, tbl)
      [] check = "values" -> ValuesQuery(t, tbl)
      [] check = "venues" -> VenuesQuery(t, tbl)

\* Whether printing a check's result raises: only the NULL checks format a
\* value that can be None.
PrintRaises(check, result) == check = "nulls" /\ FormatRaises(result)

\* One check's loop over TABLE_MAP.keys(): the lines it prints before the
\* first query or print that raises, and the exception that ends it.
CheckLoop(database, check) ==
    LET Fails(k) == \/ ~Queryable(database[Tables[k]])
                    \/ PrintRaises(check, QueryOf(check, Tables[k], database[Tables[k]]).result)
        bad  == {k \in 1..NumTables : Fails(k)}
        stop == IF bad = {} THEN NumTables + 1
                ELSE CHOOSE k \in bad : \A j \in bad : k <= j
    IN  [raised  |-> IF bad = {} THEN "none"
                     ELSE IF ~Queryable(database[Tables[stop]]) THEN "OperationalError"
                     ELSE "TypeError",
         printed |-> [k \in 1..(stop - 1) |-> QueryOf(check, Tables[k], database[Tables[k]])]]

\* ------------------------------------------------------------ sample data

\* A delivery row over the 20 columns.
Delivery(mt, venue, runs) ==
    [match_id |-> Val("1001"), match_date |-> Val("2020-01-01"), match_type |-> mt,
     season |-> Val("2020"), city |-> Val("Pune"), venue |-> venue,
     toss_winner |-> Val("India"), toss_decision |-> Val("bat"), winner |-> Val("India"),
     player_of_match |-> NULL, teams |-> Val("India, England"),
     team |-> Val("India"), over |-> Val(0), batter |-> Val("A"), bowler |-> Val("B"),
     non_striker |-> Val("C"), runs_batter |-> runs, runs_extras |-> Val(0),
     runs_total |-> runs, wicket |-> NULL]

\* A row cut down to, or widened to, a header: a column the row lacks holds
\* the text "x".
WithHeader(r, header) == [c \in header |-> IF c \in DOMAIN r THEN r[c] ELSE Val("x")]

RowsWithHeader(rows, header) == [k \in 1..Len(rows) |-> WithHeader(rows[k], header)]

\* Headers: the 20 columns, one column missing, one column too many.
FullHeader == Columns

MissingHeader == Columns \ {"wicket"}

ExtraHeader == Columns \cup {"umpire"}

\* The files main is run on.
MixedCsv ==
    Csv(FullHeader, << Delivery(Val("Test"), Val("Lord's"), Val(4)),
                       Delivery(Val("T20"), Val("Eden Gardens"), Val(-1)) >>)

MissingColumnCsv ==
    Csv(MissingHeader, RowsWithHeader(<< Delivery(Val("ODI"), Val("MCG"), Val(1)) >>, MissingHeader))

ExtraColumnCsv ==
    Csv(ExtraHeader, RowsWithHeader(<< Delivery(Val("T20"), Val("MCG"), Val(6)) >>, ExtraHeader))

HeaderOnlyCsv == Csv(FullHeader, <<>>)

MainFiles == {Absent, Malformed, HeaderOnlyCsv, MixedCsv, MissingColumnCsv, ExtraColumnCsv}

\* What the database file holds before the first run: nothing, or the four
\* tables of an earlier run with their indexes.
FreshDb == [t \in TableSet |-> NoTable]

StaleDb ==
    [t \in TableSet |->
        [exists |-> TRUE, cols |-> Columns,
         rows |-> << Delivery(Val("MDM"), NULL, NULL) >>,
         indexes |-> Range(INDEXES)]]

\* Or what a run that died in its DDL stage left behind.
PartialDb ==
    [t \in TableSet |->
        IF t = "test_table"
        THEN [exists |-> TRUE, cols |-> Columns,
              rows |-> << Delivery(Val("Test"), Val("Lord's"), Val(4)) >>, indexes |-> {}]
        ELSE NoTable]

PriorDbs == {FreshDb, StaleDb, PartialDb}

\* ------------------------------------------------------------------- state

VARIABLES
    pc,        \* the stage of main the run is in
    i,         \* the table (1..4) the stage's loop or call sequence is at
    status,    \* "running", "done" (main returned) or "aborted" (an exception left main)
    err,       \* the exception that left main, or "none"
    conn,      \* "none", "open" or "closed"
    db,        \* the tables as the connection sees them
    disk,      \* the tables as committed to the database file
    files,     \* what each path of TABLE_MAP holds
    totals,    \* main's totals dictionary
    warnings,  \* the warnings the loader printed in this run
    report,    \* the lines run_sanity_tests printed in this run
    run,       \* the number of this run of main
    prev,      \* the tables the previous run left in the database file
    ops,       \* per table, the DDL scripts, load calls and index loops of this run
    call       \* the state of a harness that calls one function

vars == <<pc, i, status, err, conn, db, disk, files, totals, warnings, report, run, prev, ops, call>>

NoOps == [t \in TableSet |-> [created |-> 0, loaded |-> 0, indexed |-> 0]]

NoCall == [kind |-> "none"]

\* The empty dictionary.
EmptyDict == [t \in {} |-> 0]

Init ==
    /\ pc = "start"
    /\ i = 1
    /\ status = "running"
    /\ err = "none"
    /\ conn = "none"
    /\ disk \in PriorDbs
    /\ db = disk
    /\ files \in [Paths -> MainFiles]
    /\ totals = EmptyDict
    /\ warnings = <<>>
    /\ report = <<>>
    /\ run = 1
    /\ prev = disk
    /\ ops = NoOps
    /\ call = NoCall

Running(stage) == status = "running" /\ pc = stage

\* An exception leaves main: main has no handler and no finally, so
\* conn.close() is not reached; the open transaction is never committed and
\* the tables are what the database file holds.
Raise(kind, durable) ==
    /\ status' = "aborted"
    /\ err' = kind
    /\ disk' = durable
    /\ db' = durable
    /\ UNCHANGED <<pc, i, conn>>

\* The stage's loop moves to the next table, or the next stage begins.
Advance(next) ==
    IF i < NumTables THEN i' = i + 1 /\ pc' = pc
    ELSE i' = 1 /\ pc' = next

\* os.makedirs; conn = sqlite3.connect(DB_PATH); cur = conn.cursor()
Connect ==
    /\ Running("start")
    /\ pc' = "ddl"
    /\ conn' = "open"
    /\ db' = disk
    /\ UNCHANGED <<i, status, err, disk, files, totals, warnings, report, run, prev, ops, call>>

\* What a statement outside a transaction leaves in the database file: the
\* sqlite3 module opens no transaction for DDL, so it is committed at once,
\* unless an earlier INSERT's transaction is still open.
AutoCommit(durable, before, after) == IF before = durable THEN after ELSE durable

\* cur.executescript(DDL_TEMPLATE.format(table=table)) for one table; after
\* the last one, conn.commit().
CreateSchema ==
    /\ Running("ddl")
    /\ LET t == Tables[i]
           r == ExecuteDDL(db[t])
           after == [db EXCEPT ![t] = r.tbl]
       IN  /\ ops' = [ops EXCEPT ![t].created = @ + 1]
           /\ IF r.raised # "none"
              THEN Raise(r.raised, disk)
              ELSE /\ db' = after
                   /\ disk' = after
                   /\ Advance("load")
                   /\ UNCHANGED <<status, err, conn>>
    /\ UNCHANGED <<files, totals, warnings, report, run, prev, call>>

\* A mutant of Committed: the INSERTs' transaction is left open.
Committed_LeftOpen(durable, t, tbl) == durable

\* What the database file holds once to_sql has returned: pandas commits the
\* transaction of its INSERTs.
Committed(durable, t, tbl) == [durable EXCEPT ![t] = tbl]

\* totals[table] = load_csv_to_table(conn, table, TABLE_MAP[table], ...) and
\* the print of the total; after the fourth, the print of the sum.
LoadTable ==
    /\ Running("load")
    /\ LET c == LoadCalls[i]
           r == LoadCsvToTable(db[c.table], files[c.path], c.expected)
       IN  /\ ops' = [ops EXCEPT ![c.table].loaded = @ + 1]
           /\ warnings' = warnings \o [k \in 1..Len(r.warnings) |->
                                          [table |-> c.table, kind |-> r.warnings[k].kind,
                                           count |-> r.warnings[k].count,
                                           examples |-> r.warnings[k].examples]]
           /\ IF r.raised # "none"
              THEN Raise(r.raised, disk) /\ UNCHANGED totals
              ELSE /\ db' = [db EXCEPT ![c.table] = r.tbl]
                   /\ disk' = IF IsFile(files[c.path]) THEN Committed(disk, c.table, r.tbl) ELSE disk
                   /\ totals' = totals @@ (c.table :> r.ret)
                   /\ Advance("index")
                   /\ UNCHANGED <<status, err, conn>>
    /\ UNCHANGED <<files, report, run, prev, call>>

\* for stmt in INDEXES: cur.execute(stmt.format(t=table)) for one table;
\* after the last one, conn.commit().
IndexTable ==
    /\ Running("index")
    /\ LET t == Tables[i]
           r == CreateIndexes(db[t])
           after == [db EXCEPT ![t] = r.tbl]
       IN  IF r.raised # "none"
           THEN Raise(r.raised, AutoCommit(disk, db, after)) /\ UNCHANGED ops
           ELSE /\ db' = after
                /\ disk' = IF i = NumTables THEN after ELSE AutoCommit(disk, db, after)
                /\ ops' = [ops EXCEPT ![t].indexed = @ + 1]
                /\ Advance("analyze")
                /\ UNCHANGED <<status, err, conn>>
    /\ UNCHANGED <<files, totals, warnings, report, run, prev, call>>

\* cur.execute("ANALYZE;"); conn.commit()
Analyze ==
    /\ Running("analyze")
    /\ pc' = "counts"
    /\ disk' = db
    /\ UNCHANGED <<i, status, err, conn, db, files, totals, warnings, report, run, prev, ops, call>>

\* One check of run_sanity_tests: its lines are printed, and it ends in the
\* next check or in the exception it raised.
SanityStep(result, next) ==
    /\ report' = report \o result.printed
    /\ IF result.raised # "none"
       THEN Raise(result.raised, disk)
       ELSE /\ pc' = next
            /\ UNCHANGED <<i, status, err, conn, db, disk>>
    /\ UNCHANGED <<files, totals, warnings, run, prev, ops, call>>

\* 1) Row counts & distinct match_type per table
SanityCounts ==
    /\ Running("counts")
    /\ SanityStep(CheckLoop(db, "counts"), "nulls")

\* 2) Null checks on key columns
SanityNulls ==
    /\ Running("nulls")
    /\ SanityStep(CheckLoop(db, "nulls"), "values")

\* 3) Basic value sanity
SanityValues ==
    /\ Running("values")
    /\ SanityStep(CheckLoop(db, "values"), "ipl")

\* 4) IPL match_type quick check
SanityIpl ==
    /\ Running("ipl")
    /\ SanityStep(IF Queryable(db["ipl_table"])
                  THEN [raised |-> "none", printed |-> << IplQuery(db["ipl_table"]) >>]
                  ELSE [raised |-> "OperationalError", printed |-> <<>>],
                  "venues")

\* 5) Top venues
SanityVenues ==
    /\ Running("venues")
    /\ SanityStep(CheckLoop(db, "venues"), "close")

\* conn.close() and the last print; main returns.  A transaction still open
\* is rolled back.
Close ==
    /\ Running("close")
    /\ conn' = "closed"
    /\ status' = "done"
    /\ db' = disk
    /\ UNCHANGED <<pc, i, err, disk, files, totals, warnings, report, run, prev, ops, call>>

\* The stages in which main uses the connection.
DbStages == {"ddl", "load", "index", "analyze", "counts", "nulls", "values", "ipl", "venues"}

SanityStages == {"counts", "nulls", "values", "ipl", "venues"}

\* A database I/O error (disk full, locked database) in the statement the run
\* is at: the statement's work is lost and the exception leaves main.  In a
\* DDL script the error may come after the DROP and before the CREATE.
DbFault ==
    /\ status = "running"
    /\ pc \in DbStages
    /\ \E dropped \in BOOLEAN :
          /\ dropped => (pc = "ddl" /\ db[Tables[i]].exists)
          /\ Raise("IOError", IF dropped THEN [disk EXCEPT ![Tables[i]] = NoTable] ELSE disk)
    /\ UNCHANGED <<files, totals, warnings, report, run, prev, ops, call>>

\* The operator runs the script again on the same files and the same
\* database file.  (After an I/O error the model follows the session no
\* further.)
Rerun ==
    /\ status \in {"done", "aborted"}
    /\ err # "IOError"
    /\ run < MaxRuns
    /\ run' = run + 1
    /\ prev' = disk
    /\ pc' = "start"
    /\ i' = 1
    /\ status' = "running"
    /\ err' = "none"
    /\ conn' = "none"
    /\ db' = disk
    /\ totals' = EmptyDict
    /\ warnings' = <<>>
    /\ report' = <<>>
    /\ ops' = NoOps
    /\ UNCHANGED <<disk, files, call>>

Next ==
    \/ Connect
    \/ CreateSchema
    \/ LoadTable
    \/ IndexTable
    \/ Analyze
    \/ SanityCounts
    \/ SanityNulls
    \/ SanityValues
    \/ SanityIpl
    \/ SanityVenues
    \/ Close
    \/ DbFault
    \/ Rerun

Spec == Init /\ [][Next]_vars

\* ------------------------------------------------- the loader on its own

\* The files load_csv_to_table is called on: generated rows under each
\* header, and files with more distinct labels than a warning shows.
NoLabelHeader == Columns \ {"match_type"}

Headers == {FullHeader, MissingHeader, ExtraHeader, NoLabelHeader}

SampleRows ==
    { Delivery(Val("Test"), Val("Lord's"), Val(4)),
      Delivery(Val("ODI"), Val("MCG"), Val(0)),
      Delivery(NULL, NULL, NULL) }

LabelRows(labels) == [k \in 1..Len(labels) |-> Delivery(labels[k], Val("MCG"), Val(1))]

LongCsvs ==
    { Csv(FullHeader, LabelRows(<< Val("ODI"), Val("T20"), NULL, Val("IT20"), Val("MDM"),
                                   Val("ODI"), Val("ODM"), Val("IPL"), Val("Test") >>)),
      Csv(FullHeader, LabelRows(<< Val("Test"), Val("ODI"), Val("ODI"), Val("T20"), Val("MDM"),
                                   Val("IT20"), NULL, Val("Test") >>)) }

LoadFiles ==
    {Absent, Malformed} \cup LongCsvs
    \cup {Csv(h, RowsWithHeader(rows, h)) : h \in Headers, rows \in SeqsUpTo(SampleRows, MaxRows)}

\* The table the call appends to: missing, fresh from the DDL script, or
\* holding a row already.
LoadTargets ==
    { NoTable,
      ExecuteDDL(NoTable).tbl,
      [ExecuteDDL(NoTable).tbl EXCEPT !.rows = << Delivery(Val("T20"), Val("Eden Gardens"), Val(2)) >>] }

Pending == [raised |-> "pending", ret |-> 0, warnings |-> <<>>, tbl |-> NoTable]

\* The harness holds a file, an expectation and a table, and calls
\* load_csv_to_table with the expectation and, on a copy of the table,
\* without one.
InitLoad ==
    /\ pc = "harness"
    /\ i = 1
    /\ status = "running"
    /\ err = "none"
    /\ conn = "open"
    /\ disk = FreshDb
    /\ db = FreshDb
    /\ files = [p \in Paths |-> Absent]
    /\ totals = EmptyDict
    /\ warnings = <<>>
    /\ report = <<>>
    /\ run = 1
    /\ prev = FreshDb
    /\ ops = NoOps
    /\ \E f \in LoadFiles, e \in {"", "Test", "ODI", "T20"}, target \in LoadTargets :
          call = [kind |-> "load", file |-> f, expected |-> e, before |-> target,
                  result |-> Pending, plain |-> Pending]

mainVars == <<pc, i, status, err, conn, db, disk, files, totals, warnings, report, run, prev, ops>>

\* load_csv_to_table(conn, table, path, expected_match_type=expected)
CallLoad ==
    /\ call.kind = "load"
    /\ call.result = Pending
    /\ call' = [call EXCEPT !.result = LoadCsvToTable(call.before, call.file, call.expected)]
    /\ UNCHANGED mainVars

\* load_csv_to_table(conn, table, path)
CallLoadPlain ==
    /\ call.kind = "load"
    /\ call.plain = Pending
    /\ call' = [call EXCEPT !.plain = LoadCsvToTable(call.before, call.file, "")]
    /\ UNCHANGED mainVars

NextLoad == CallLoad \/ CallLoadPlain

SpecLoad == InitLoad /\ [][NextLoad]_vars

\* ------------------------------------------- the index stage on its own

\* The tables the index stage finds: created by the DDL script, loaded, and
\* with or without an index of an earlier invocation.
IndexTargets ==
    { [ExecuteDDL(NoTable).tbl EXCEPT !.rows = rows, !.indexes = had] :
        rows \in {<<>>, << Delivery(Val("T20"), Val("MCG"), Val(1)) >>},
        had \in {{}, {INDEXES[6]}} }

\* The harness runs the index stage of main (lines 160-164) and, when it has
\* ended, runs it once more.
InitIndex ==
    /\ pc = "index"
    /\ i = 1
    /\ status = "running"
    /\ err = "none"
    /\ conn = "open"
    /\ db \in [TableSet -> IndexTargets]
    /\ disk = db
    /\ files = [p \in Paths |-> Absent]
    /\ totals = EmptyDict
    /\ warnings = <<>>
    /\ report = <<>>
    /\ run = 1
    /\ prev = db
    /\ ops = NoOps
    /\ call = [kind |-> "index", pass |-> 1, before |-> db, first |-> db]

ReinvokeIndexes ==
    /\ Running("analyze")
    /\ call.kind = "index"
    /\ call.pass = 1
    /\ call' = [call EXCEPT !.pass = 2, !.first = db]
    /\ pc' = "index"
    /\ i' = 1
    /\ UNCHANGED <<status, err, conn, db, disk, files, totals, warnings, report, run, prev, ops>>

NextIndex == IndexTable \/ ReinvokeIndexes

SpecIndex == InitIndex /\ [][NextIndex]_vars

\* ------------------------------------------------------------------ claims

Terminal == status \in {"done", "aborted"}

\* The rows a file's data rows become in a table of the 20 columns.
RowsOf(file) ==
    [k \in 1..Len(file.rows) |->
        [c \in Columns |-> IF c \in file.columns THEN file.rows[k][c] ELSE NULL]]

\* A file the loader can store: a CSV with data rows and no column the
\* schema lacks.
Loadable(file) == file.kind = "csv" /\ file.columns \subseteq Columns /\ Len(file.rows) > 0

\* main has made, and finished or died in, its load call for table k.
LoadCalled(k) == ops[Tables[k]].loaded = 1

\* C1: if the source CSV of some of the four formats is absent (the others
\* being loadable files), load_csv_to_table returns 0 for it, its table exists
\* with zero rows, and the run of main ends without aborting.
C1_AbsentFileRunCompletes ==
    ( /\ \E p \in Paths : files[p] = Absent
      /\ \A p \in Paths : files[p] = Absent \/ Loadable(files[p])
      /\ err # "IOError" )
    => /\ status # "aborted"
       /\ \A k \in 1..NumTables :
             (files[LoadCalls[k].path] = Absent /\ LoadCalled(k))
             => /\ Tables[k] \in DOMAIN totals
                /\ totals[Tables[k]] = 0
                /\ db[Tables[k]].exists
                /\ db[Tables[k]].rows = <<>>

\* C2: in every terminal state of main, reached by return or by an
\* exception, the connection opened at its start is closed.
C2_ConnectionClosedOnEveryExit == Terminal => conn = "closed"

\* C3: when main has run twice in a row on the same files and the same
\* database file (no database I/O error in either run), each table holds
\* after the second run exactly the rows it held after the first, whatever
\* the database held before the first.
C3_RerunIdempotent ==
    (run >= 2 /\ Terminal /\ err # "IOError")
    => \A t \in TableSet :
          /\ db[t].exists = prev[t].exists
          /\ db[t].rows = prev[t].rows
          /\ disk[t].rows = prev[t].rows

C3_Witness ==
    /\ run = 2
    /\ status = "done"
    /\ \A t \in TableSet : Len(db[t].rows) > 0
    /\ \E t, u \in TableSet : db[t].rows # db[u].rows

\* C4: when a table's source file exists and main's load call for it has
\* returned, the returned count is the number of data rows of the file and
\* the table holds that number of rows.
C4_ReturnedCountIsDataRows ==
    \A k \in 1..NumTables :
        LET t == Tables[k]
            file == files[LoadCalls[k].path]
        IN  (IsFile(file) /\ t \in DOMAIN totals)
            => /\ totals[t] = DataRows(file)
               /\ Len(db[t].rows) = DataRows(file)

C4_Witness ==
    /\ status = "running"
    /\ pc = "index"
    /\ \E t, u \in TableSet : totals[t] = 2 /\ totals[u] = 1 /\ Len(db[t].rows) = 2
    /\ \E p \in Paths : files[p] = HeaderOnlyCsv

\* The positions of the data rows of a file whose match_type is present and
\* is not the expected label.
Offending(file, expected) ==
    {k \in 1..Len(file.rows) :
        file.rows[k]["match_type"] # NULL /\ file.rows[k]["match_type"] # <<expected>>}

Mismatches(result) == SelectSeq(result.warnings, LAMBDA w : w.kind = "mismatch")

\* C5: when load_csv_to_table is given an expectation and the file has a
\* match_type column, a mismatch warning is printed only when some row's
\* match_type is present and differs, its count is the number of such rows,
\* it shows at most 5 distinct offending values, and the call raises, returns
\* and stores what the call without an expectation does.
C5_MismatchWarningAdvisory ==
    ( /\ call.kind = "load"
      /\ call.result # Pending
      /\ call.expected # ""
      /\ call.file.kind = "csv"
      /\ "match_type" \in call.file.columns )
    => LET off == Offending(call.file, call.expected)
           shown == Mismatches(call.result)
       IN  /\ Len(shown) = (IF off = {} THEN 0 ELSE 1)
           /\ \A n \in 1..Len(shown) :
                 /\ shown[n].count = Cardinality(off)
                 /\ Len(shown[n].examples) <= 5
                 /\ Cardinality(Range(shown[n].examples)) = Len(shown[n].examples)
                 /\ Range(shown[n].examples)
                       \subseteq {call.file.rows[k]["match_type"] : k \in off}
           /\ call.plain # Pending
              => /\ call.result.raised = call.plain.raised
                 /\ call.result.ret = call.plain.ret
                 /\ call.result.tbl = call.plain.tbl

C5_Witness ==
    /\ call.kind = "load"
    /\ call.expected = "Test"
    /\ call.result # Pending
    /\ call.plain # Pending
    /\ call.result.raised = "none"
    /\ "match_type" \in call.file.columns
    /\ Cardinality({call.file.rows[k]["match_type"] : k \in Offending(call.file, "Test")}) > 5
    /\ Len(Mismatches(call.result)) = 1
    /\ Mismatches(call.result)[1].count = 7
    /\ Len(Mismatches(call.result)[1].examples) = 5
    /\ Len(call.result.tbl.rows) = Len(call.before.rows) + 9

\* C6: a source CSV with extra or missing columns is tolerated: main's load
\* call for it does not raise, and the table then holds every data row of the
\* file, NULL in the columns the file lacks and without the columns the
\* schema lacks.
C6_ExtraMissingColumnsTolerated ==
    \A k \in 1..NumTables :
        LET t == Tables[k]
            file == files[LoadCalls[k].path]
        IN  (file.kind = "csv" /\ LoadCalled(k) /\ err # "IOError")
            => /\ ~(status = "aborted" /\ pc = "load" /\ i = k)
               /\ db[t].rows = RowsOf(file)

\* C7: run_sanity_tests is informational and read-only: each of its checks
\* ends in the next one of counts, nulls, values, IPL distribution, top
\* venues (no exception of its own leaves it), and no check changes a table.
C7_SanityNeverFailsReadOnly ==
    [][ (status = "running" /\ pc \in SanityStages /\ err' # "IOError")
        => /\ status' = "running"
           /\ db' = db
           /\ disk' = disk
           /\ pc' = CASE pc = "counts" -> "nulls"
                      [] pc = "nulls"  -> "values"
                      [] pc = "values" -> "ipl"
                      [] pc = "ipl"    -> "venues"
                      [] pc = "venues" -> "close" ]_vars

\* The columns of the seven indexes each table is to have.
IndexedColumns ==
    { <<"match_id">>, <<"match_type", "season">>, <<"team", "season">>,
      <<"batter">>, <<"bowler">>, <<"winner">>, <<"venue">> }

\* C8: once the index stage has run, each table has indexes on match_id,
\* (match_type, season), (team, season), batter, bowler, winner and venue;
\* a second invocation raises nothing and changes neither the indexes nor the
\* rows of any table; no invocation changes a table's rows.
C8_IndexStageIdempotent ==
    (call.kind = "index")
    => /\ status # "aborted"
       /\ \A t \in TableSet : db[t].rows = call.before[t].rows
       /\ (pc = "analyze")
          => \A t \in TableSet :
                /\ {ix.cols : ix \in db[t].indexes} = IndexedColumns
                /\ Cardinality(db[t].indexes) = 7
       /\ (call.pass = 2) => (db = call.first /\ disk = call.first)

C8_Witness ==
    /\ call.kind = "index"
    /\ call.pass = 2
    /\ pc = "analyze"
    /\ \E t \in TableSet : Len(db[t].rows) > 0
    /\ \E t \in TableSet : call.before[t].indexes = {}
    /\ \A t \in TableSet : Cardinality(db[t].indexes) = 7

\* The counts of a run's operations on each table fit the lifecycle: at most
\* one DDL script, one load call and one index loop per table, every table
\* created before any load call, every load call made before any index loop,
\* and every table indexed before validation starts.
LifecycleOrder ==
    /\ \A t \in TableSet :
          /\ ops[t].created <= 1 /\ ops[t].loaded <= 1 /\ ops[t].indexed <= 1
          /\ ops[t].loaded = 1 => \A u \in TableSet : ops[u].created = 1
          /\ ops[t].indexed = 1 => \A u \in TableSet : ops[u].loaded = 1
    /\ pc \in SanityStages \cup {"close"}
       => \A t \in TableSet : ops[t].created = 1 /\ ops[t].loaded = 1 /\ ops[t].indexed = 1

\* What a step of a run may do to table t: nothing; or drop and create it
\* empty, as its one DDL script; or append the rows of its own source file,
\* as its one load call; or add indexes, rows untouched, as its one index
\* loop; or leave it dropped when a database I/O error cuts its DDL script.
LifecycleStep(t) ==
    \/ db'[t] = db[t]
    \/ /\ ops'[t].created = ops[t].created + 1
       /\ db'[t].exists /\ db'[t].rows = <<>> /\ db'[t].indexes = {}
    \/ /\ ops'[t].loaded = ops[t].loaded + 1
       /\ db'[t].rows = db[t].rows \o RowsOf(files[TABLE_MAP(t)])
       /\ db'[t].exists /\ db'[t].indexes = db[t].indexes
    \/ /\ ops'[t].indexed = ops[t].indexed + 1
       /\ db'[t].rows = db[t].rows
       /\ db'[t].exists
    \/ /\ err' = "IOError" /\ pc = "ddl" /\ ops[t].created = 0
       /\ db'[t] = NoTable

\* C9: within a run every table is created, appended to, indexed and then
\* only read: one DDL script per table and before any load, rows from one
\* load call and from the table's own source file, indexes only after the
\* four load calls, and no change to any table once validation has started.
C9_TableLifecycle ==
    [][ /\ LifecycleOrder
        /\ LifecycleOrder'
        /\ run' = run => \A t \in TableSet : LifecycleStep(t)
        /\ pc \in SanityStages \cup {"close"} => (db' = db /\ disk' = disk) ]_vars

C9_Witness ==
    /\ status = "done"
    /\ \A t \in TableSet : ops[t].created = 1 /\ ops[t].loaded = 1 /\ ops[t].indexed = 1
    /\ \A t \in TableSet : db[t].rows = RowsOf(files[TABLE_MAP(t)])
    /\ \E t, u \in TableSet : db[t].rows # db[u].rows

\* C10: when an exception aborts the run, nothing is rolled back: every table
\* whose DDL script had run still exists, and every table whose load call had
\* returned still holds all the rows the call stored.
C10_NoRollbackOnAbort ==
    (status = "aborted")
    => \A k \in 1..NumTables :
          LET t == Tables[k]
          IN  /\ ops[t].created = 1 => (disk[t].exists /\ db[t].exists)
              /\ t \in DOMAIN totals
                 => /\ Len(disk[t].rows) = totals[t]
                    /\ disk[t].rows = RowsOf(files[LoadCalls[k].path])
                    /\ db[t].rows = disk[t].rows

C10_Witness ==
    /\ status = "aborted"
    /\ err = "OperationalError"
    /\ pc = "load"
    /\ i = 3
    /\ totals["test_table"] = 2
    /\ Len(disk["test_table"].rows) = 2
    /\ disk["t20_table"].exists

====
